---- MODULE Spec2Model ----
(***************************************************************************)
(* TrustedBot (src/app.py): the conversation session of a Panel dashboard. *)
(* The module-level list `context` is the message log sent to the          *)
(* completion endpoint, `panels` is the parallel list of display rows and  *)
(* `chat_area.objects` is what the browser shows.  Two button callbacks    *)
(* mutate them: on_send_click and reset_memory.                            *)
(*                                                                         *)
(* A text is a sequence of fragments (strings); the user's input is a      *)
(* sequence of one-character fragments, so that str.strip() is computed.   *)
(*                                                                         *)
(* on_send_click blocks in get_completion_from_messages (line 140); the    *)
(* callback is modelled in two steps around that call.  Spec dispatches    *)
(* callbacks one at a time (the server's event loop, run to completion);   *)
(* SpecOverlap lets a callback start while another one is blocked in the   *)
(* completion call (threaded dispatch, or several browser sessions), which *)
(* the source does nothing to prevent.                                     *)
(***************************************************************************)
EXTENDS Integers, Sequences, FiniteSets, TLC

\* ------------------------------------------------------------------ bounds

\* callbacks that may be in progress at once (slots)
MaxCallbacks == 2
\* longest log the model explores (guards stop appending beyond it)
MaxLog == 6
\* longest text typed into the input widget
MaxInputLen == 2

Procs == 1..MaxCallbacks
\* identities of the list objects `context` has been bound to
ListIds == 0..MaxCallbacks
\* the id of no list: a slot that is not in a completion call holds it
NoList == MaxCallbacks + 1

\* ------------------------------------------------------------------ texts

\* characters the user types: a letter and a blank
Chars == {"a", " "}
Whitespace == {" "}

RECURSIVE TextsUpTo(_)
TextsUpTo(n) ==
    IF n = 0 THEN {<<>>}
    ELSE LET S == TextsUpTo(n - 1)
         IN  S \cup {Append(t, c) : t \in {u \in S : Len(u) = n - 1}, c \in Chars}

\* values of inp.value
Inputs == TextsUpTo(MaxInputLen)

\* replies of the completion endpoint: an empty string, or some text
Replies == {<<>>, <<"r">>}

SystemPrompt == <<"You are the Trusted ChatBot, a helpful assistant that generates trusted answers using the CoT-SC (Chain-of-Thought Self-Consistency) method. ...">>

\* line 111 (the source writes the apostrophe as U+2019)
bot_greet == <<"Hi! I'm TrustedBot. How can I help you today?">>

EmptyNotice == <<"Oops! I didn't get that. Could you please type something?">>

Apology == <<"Sorry, something went wrong. Please try again.">>

\* ---------------------------------------------------------- pure helpers

RECURSIVE lstrip(_)
lstrip(s) ==
    IF s # <<>> /\ Head(s) \in Whitespace THEN lstrip(Tail(s)) ELSE s

RECURSIVE rstrip(_)
rstrip(s) ==
    IF s # <<>> /\ s[Len(s)] \in Whitespace
    THEN rstrip(SubSeq(s, 1, Len(s) - 1))
    ELSE s

\* mutant: only the leading whitespace is removed
strip_leading_only(s) == lstrip(s)

\* str.strip(): leading and trailing whitespace removed
strip(s) == rstrip(lstrip(s))

Message(role, text) == [role |-> role, content |-> text]

\* line 71-74
Color(role) == IF role = "assistant" THEN "#71E883BD" ELSE "#94dce6b3"

\* str.capitalize() on the role names
Capitalize(role) ==
    CASE role = "assistant" -> "Assistant"
      [] role = "user" -> "User"
      [] role = "system" -> "System"

\* line 77: the f-string around the text
HtmlText(role, text) ==
    <<"<div style='background-color:", Color(role),
      "; padding:5px; white-space:pre-wrap;'>">> \o text \o <<"</div>">>

\* line 80: pn.Row(label, pn.pane.HTML(html_text))
MakeRow(role, text) ==
    [label |-> <<Capitalize(role), ":">>, html |-> HtmlText(role, text)]

\* ------------------------------------------------------------------ state

VARIABLES
    heap,       \* the list objects `context` has been bound to: id -> messages
    context,    \* the global `context`: the id of the current list object
    panels,     \* the global `panels`: the rows built so far
    chat_area,  \* chat_area.objects: the rows the browser shows
    inp,        \* inp.value: the text in the input widget
    pc,         \* per callback slot: "idle", or "call" (blocked in line 140)
    payload,    \* per slot: the list object passed as `messages` (NoList if none)
    hist        \* per slot: record of the callback it runs or ran last (history)

vars == <<heap, context, panels, chat_area, inp, pc, payload, hist>>

\* the message log: the list `context` is bound to
Log == heap[context]

Idle == \A q \in Procs : pc[q] = "idle"

InFlight == Cardinality({q \in Procs : pc[q] = "call"})

Referenced(id) == \E q \in Procs : payload[q] = id

\* hist is a history variable: no statement of the source reads it.
\* op: what the callback did; prev: what the callback before it did;
\* before: the log when it was entered; trace: the events of the callback;
\* prevby: while the callback is in its completion call, the slot of the
\* callback before it (0 otherwise); sent: the messages the list passed to
\* the completion call held when the call was made
NoHist ==
    [op |-> "none", prev |-> "none", prevby |-> 0, before |-> <<>>,
     trace |-> <<>>, sent |-> <<>>]

\* what the callback that finished last did ("none" after construction, or
\* when another callback has started since)
LastOp ==
    IF \E q \in Procs : hist[q].op # "none" /\ pc[q] = "idle"
    THEN hist[CHOOSE q \in Procs : hist[q].op # "none" /\ pc[q] = "idle"].op
    ELSE "none"

\* the slot of that callback (0 if none)
LastBy ==
    IF \E q \in Procs : hist[q].op # "none" /\ pc[q] = "idle"
    THEN CHOOSE q \in Procs : hist[q].op # "none" /\ pc[q] = "idle"
    ELSE 0

\* the callback of slot p acts: the records of other finished callbacks are dropped
Forget(p) ==
    [q \in Procs |-> IF q # p /\ pc[q] = "idle" THEN NoHist ELSE hist[q]]

\* the globals as a callback sees them on entry, with an empty event trace
Enter ==
    [heap |-> heap, context |-> context, panels |-> panels,
     chat_area |-> chat_area, trace |-> <<>>]

\* the globals as the callback of slot p sees them when its call returns
Resume(p) == [Enter EXCEPT !.trace = hist[p].trace]

Commit(g) ==
    /\ context' = g.context
    /\ panels' = g.panels
    /\ chat_area' = g.chat_area

\* ------------------------------------------------------------- operations

\* mutant: the message is inserted after the system prompt instead of appended
add_message_insert(g, role, text) ==
    LET old == g.heap[g.context]
        g1 == [g EXCEPT !.heap[g.context] =
                 <<old[1], Message(role, text)>> \o Tail(old)]
        g2 == [g1 EXCEPT !.panels = <<MakeRow(role, text)>> \o @]
    IN  [g2 EXCEPT !.chat_area = g2.panels,
                   !.trace = @ \o <<"append", "render">>]

\* mutant: the chat area is refreshed before the new row is added
add_message_stale(g, role, text) ==
    LET g1 == [g EXCEPT !.heap[g.context] = Append(@, Message(role, text))]
        g2 == [g1 EXCEPT !.chat_area = g1.panels]
    IN  [g2 EXCEPT !.panels = Append(@, MakeRow(role, text)),
                   !.trace = @ \o <<"render", "append">>]

\* lines 62-83: append to the log, build the row, hand all rows to the chat area
add_message(g, role, text) ==
    LET g1 == [g EXCEPT !.heap[g.context] = Append(@, Message(role, text))]
        g2 == [g1 EXCEPT !.panels = Append(@, MakeRow(role, text))]
    IN  [g2 EXCEPT !.chat_area = g2.panels,
                   !.trace = @ \o <<"append", "render">>]

\* mutant: the greeting is not added
boot_greeting_skip(g) == g

\* lines 107-112
boot_greeting(g) == add_message(g, "assistant", bot_greet)

\* lines 24-40 and 116: the module is loaded
Construct ==
    boot_greeting(
        [heap |-> [i \in ListIds |->
                     IF i = 0 THEN <<Message("system", SystemPrompt)>> ELSE <<>>],
         context |-> 0, panels |-> <<>>, chat_area |-> <<>>, trace |-> <<>>])

\* line 156 builds a new list object; the old one lives on while a completion
\* call still holds it
FreshList ==
    IF Referenced(context)
    THEN CHOOSE i \in ListIds :
           /\ i # context /\ ~Referenced(i)
           /\ \A j \in ListIds : (j # context /\ ~Referenced(j)) => i <= j
    ELSE context

\* mutant: the log is emptied, the system prompt with it
reset_memory_body_drop_system(g, fresh) ==
    LET g1 == [g EXCEPT !.heap[fresh] = <<>>,
                        !.context = fresh,
                        !.trace = @ \o <<"truncate">>]
        g2 == [g1 EXCEPT !.panels = <<>>]
        g3 == [g2 EXCEPT !.chat_area = <<>>, !.trace = @ \o <<"render">>]
    IN  boot_greeting(g3)

\* mutant: `panels` is not cleared, only the chat area
reset_memory_body_keep_panels(g, fresh) ==
    LET g1 == [g EXCEPT !.heap[fresh] = <<g.heap[g.context][1]>>,
                        !.context = fresh,
                        !.trace = @ \o <<"truncate">>]
        g3 == [g1 EXCEPT !.chat_area = <<>>, !.trace = @ \o <<"render">>]
    IN  boot_greeting(g3)

\* mutant: the log is not truncated, the greeting is appended to it
reset_memory_body_no_truncate(g, fresh) ==
    LET g2 == [g EXCEPT !.panels = <<>>]
        g3 == [g2 EXCEPT !.chat_area = <<>>, !.trace = @ \o <<"render">>]
    IN  boot_greeting(g3)

\* lines 155-159
reset_memory_body(g, fresh) ==
    LET g1 == [g EXCEPT !.heap[fresh] = <<g.heap[g.context][1]>>,
                        !.context = fresh,
                        !.trace = @ \o <<"truncate">>]
        g2 == [g1 EXCEPT !.panels = <<>>]
        g3 == [g2 EXCEPT !.chat_area = <<>>, !.trace = @ \o <<"render">>]
    IN  boot_greeting(g3)

\* mutant: the test never takes the empty branch
IsFalsy_never(text) == FALSE

\* mutant: the test is inverted
IsFalsy_inverted(text) == text # <<>>

\* line 132: `not user_text`
IsFalsy(text) == text = <<>>

\* what the completion endpoint does with one call: a reply, or an exception
Outcomes ==
    {[kind |-> "return", value |-> r] : r \in Replies}
        \cup {[kind |-> "raise", value |-> <<>>]}

\* mutant: no except clause, the exception leaves the callback
try_completion_uncaught(outcome) ==
    IF outcome.kind = "raise"
    THEN [propagated |-> TRUE, bot_reply |-> <<>>]
    ELSE [propagated |-> FALSE, bot_reply |-> outcome.value]

\* lines 139-142: the try statement around the completion call
try_completion(outcome) ==
    IF outcome.kind = "raise"
    THEN [propagated |-> FALSE, bot_reply |-> Apology]
    ELSE [propagated |-> FALSE, bot_reply |-> outcome.value]

\* mutant: the completion call is made before the user turn is appended
submit_text_call_first(g, user_text) ==
    LET g1 == [g EXCEPT !.trace = @ \o <<"complete">>]
    IN  [state |-> add_message(g1, "user", user_text),
         messages |-> g.context,
         sent |-> g.heap[g.context]]

\* mutant: only the new user turn is passed to the completion call
submit_text_last_only(g, user_text) ==
    LET g1 == add_message(g, "user", user_text)
    IN  [state |-> [g1 EXCEPT !.trace = @ \o <<"complete">>],
         messages |-> g1.context,
         sent |-> <<Message("user", user_text)>>]

\* lines 137-140: the user turn is added, then the completion call is made
\* with the list `context` itself as `messages`
submit_text(g, user_text) ==
    LET g1 == add_message(g, "user", user_text)
    IN  [state |-> [g1 EXCEPT !.trace = @ \o <<"complete">>],
         messages |-> g1.context,
         sent |-> g1.heap[g1.context]]

\* a list object nobody holds any more is dropped
Release(h, id, p) ==
    IF id # context /\ ~(\E q \in Procs \ {p} : payload[q] = id)
    THEN [h EXCEPT ![id] = <<>>]
    ELSE h

Init ==
    /\ heap = Construct.heap
    /\ context = Construct.context
    /\ panels = Construct.panels
    /\ chat_area = Construct.chat_area
    /\ inp = <<>>
    /\ pc = [p \in Procs |-> "idle"]
    /\ payload = [p \in Procs |-> NoList]
    /\ hist = [p \in Procs |-> NoHist]

\* the user edits the input widget
type_input(s) ==
    /\ s # inp
    /\ inp' = s
    /\ UNCHANGED <<heap, context, panels, chat_area, pc, payload, hist>>

\* lines 129-134: Send with an input that strips to nothing
on_send_click_empty(p) ==
    LET user_text == strip(inp)
        g == add_message(Enter, "assistant", EmptyNotice)
    IN  /\ pc[p] = "idle"
        /\ IsFalsy(user_text)
        /\ Len(Log) + InFlight + 1 <= MaxLog
        /\ heap' = g.heap
        /\ Commit(g)
        /\ hist' = [Forget(p) EXCEPT ![p] =
                      [op |-> "empty", prev |-> LastOp, prevby |-> 0,
                       before |-> Log, trace |-> g.trace, sent |-> <<>>]]
        /\ UNCHANGED <<inp, pc, payload>>

\* lines 129-140: Send with text; the callback blocks in the completion call
on_send_click_call(p) ==
    LET user_text == strip(inp)
        s == submit_text(Enter, user_text)
        g == s.state
    IN  /\ pc[p] = "idle"
        /\ ~IsFalsy(user_text)
        /\ Len(Log) + InFlight + 2 <= MaxLog
        /\ inp' = <<>>
        /\ heap' = g.heap
        /\ Commit(g)
        /\ payload' = [payload EXCEPT ![p] = s.messages]
        /\ pc' = [pc EXCEPT ![p] = "call"]
        /\ hist' = [Forget(p) EXCEPT ![p] =
                      [op |-> "begin", prev |-> LastOp, prevby |-> LastBy,
                       before |-> Log, trace |-> g.trace, sent |-> s.sent]]

\* lines 140-144: the completion call ends and the callback finishes
on_send_click_resume(p, outcome) ==
    LET t == try_completion(outcome)
        g == IF t.propagated THEN Resume(p)
             ELSE add_message(Resume(p), "assistant", t.bot_reply)
    IN  /\ pc[p] = "call"
        /\ heap' = Release(g.heap, payload[p], p)
        /\ Commit(g)
        /\ payload' = [payload EXCEPT ![p] = NoList]
        /\ pc' = [pc EXCEPT ![p] = "idle"]
        /\ hist' = [Forget(p) EXCEPT ![p] =
                      [@ EXCEPT !.op = IF t.propagated THEN "raised"
                                       ELSE IF outcome.kind = "raise" THEN "apology"
                                       ELSE "reply",
                                !.prevby = 0,
                                !.trace = g.trace]]
        /\ UNCHANGED inp

\* lines 151-159: Reset Memory
reset_memory(p) ==
    LET g == reset_memory_body(Enter, FreshList)
    IN  /\ pc[p] = "idle"
        /\ heap' = g.heap
        /\ Commit(g)
        /\ hist' = [Forget(p) EXCEPT ![p] =
                      [op |-> "reset", prev |-> LastOp, prevby |-> 0,
                       before |-> Log, trace |-> g.trace, sent |-> <<>>]]
        /\ UNCHANGED <<inp, pc, payload>>

\* callbacks run one at a time, each to completion (the server's event loop)
Next ==
    \/ \E s \in Inputs : Idle /\ type_input(s)
    \/ \E p \in Procs : Idle /\ on_send_click_empty(p)
    \/ \E p \in Procs : Idle /\ on_send_click_call(p)
    \/ \E p \in Procs, o \in Outcomes : on_send_click_resume(p, o)
    \/ \E p \in Procs : Idle /\ reset_memory(p)

Spec == Init /\ [][Next]_vars

\* a callback may start while another is blocked in the completion call
NextOverlap ==
    \/ \E s \in Inputs : type_input(s)
    \/ \E p \in Procs : on_send_click_empty(p)
    \/ \E p \in Procs : on_send_click_call(p)
    \/ \E p \in Procs, o \in Outcomes : on_send_click_resume(p, o)
    \/ \E p \in Procs : reset_memory(p)

SpecOverlap == Init /\ [][NextOverlap]_vars

\* the completion endpoint ends every call, with a reply or with an error
SpecFair ==
    /\ Spec
    /\ \A p \in Procs : WF_vars(\E o \in Outcomes : on_send_click_resume(p, o))

\* ------------------------------------------------- vocabulary of the claims

IsPrefix(s, t) == Len(s) <= Len(t) /\ SubSeq(t, 1, Len(s)) = s

AllBlank(s) == \A i \in 1..Len(s) : s[i] \in Whitespace

\* t is s without its leading and trailing blanks
IsTrimOf(t, s) ==
    \E i, j \in 0..Len(s) :
        /\ i + j <= Len(s)
        /\ t = SubSeq(s, i + 1, Len(s) - j)
        /\ \A k \in 1..i : s[k] \in Whitespace
        /\ \A k \in (Len(s) - j + 1)..Len(s) : s[k] \in Whitespace
        /\ t # <<>> => (t[1] \notin Whitespace /\ t[Len(t)] \notin Whitespace)

Last(s) == s[Len(s)]

\* the role and the text a displayed row shows
RowRole(row) ==
    CASE row.label = <<"Assistant", ":">> -> "assistant"
      [] row.label = <<"User", ":">> -> "user"
      [] row.label = <<"System", ":">> -> "system"
      [] OTHER -> "?"

RowText(row) == SubSeq(row.html, 4, Len(row.html) - 1)

SystemEntry == [role |-> "system", content |-> SystemPrompt]

GreetingEntry ==
    [role |-> "assistant",
     content |-> <<"Hi! I'm TrustedBot. How can I help you today?">>]

\* the step is a Send click handled by slot p (up to the completion call, if any)
SendStep(p) ==
    /\ pc[p] = "idle"
    /\ hist'[p] # hist[p]
    /\ hist'[p].op \in {"empty", "begin"}

\* the step is the end of the completion call of slot p
ResumeStep(p) == pc[p] = "call" /\ pc'[p] = "idle"

\* the step is a Reset Memory click handled by slot p
ResetStep(p) ==
    /\ pc[p] = "idle"
    /\ hist' # hist
    /\ hist'[p].op = "reset"

\* -------------------------------------------------------------------- C1

\* C1: in every state the first entry of the log is the system prompt set at
\* construction, with role system; no submit or reset alters, moves or removes it.
C1_SystemPromptFixed ==
    /\ Len(Log) >= 1
    /\ Log[1] = SystemEntry
    /\ \A i \in 2..Len(Log) : Log[i] # SystemEntry

\* a reset of a log that held turns, and the system prompt is still first
C1_Witness ==
    \E p \in Procs :
        /\ hist[p].op = "reset"
        /\ Len(hist[p].before) >= 4
        /\ Log[1] = SystemEntry

\* -------------------------------------------------------------------- C2

\* C2: a Send whose input does not trim to empty appends one user entry with
\* the trimmed text and renders, then the end of the completion call appends
\* one assistant entry right after it and renders: the log grows by exactly 2
\* and the renderer is triggered exactly twice, once after each entry.
C2_SubmitAppendsUserThenAssistant ==
    [][\A p \in Procs :
         /\ (SendStep(p) /\ ~AllBlank(inp)) =>
              /\ pc'[p] = "call"
              /\ Len(Log') = Len(Log) + 1
              /\ IsPrefix(Log, Log')
              /\ Last(Log').role = "user"
              /\ IsTrimOf(Last(Log').content, inp)
              /\ hist'[p].trace = <<"append", "render", "complete">>
         /\ ResumeStep(p) =>
              /\ Len(Log) = Len(hist[p].before) + 1
              /\ IsPrefix(hist[p].before, Log)
              /\ Len(Log') = Len(Log) + 1
              /\ IsPrefix(Log, Log')
              /\ Last(Log).role = "user"
              /\ Last(Log').role = "assistant"
              /\ hist'[p].trace =
                   <<"append", "render", "complete", "append", "render">>
      ]_vars

\* a submit of "a" answered with "r" has finished
C2_Witness ==
    \E p \in Procs :
        /\ hist[p].op = "reply"
        /\ Idle
        /\ Log = hist[p].before \o
                   <<[role |-> "user", content |-> <<"a">>],
                     [role |-> "assistant", content |-> <<"r">>]>>

\* -------------------------------------------------------------------- C3

\* C3: a Send whose input trims to empty appends exactly one assistant entry,
\* the canned notice, and no user entry; the completion endpoint is not called.
C3_EmptyInputNotice ==
    [][\A p \in Procs :
         (SendStep(p) /\ AllBlank(inp)) =>
              /\ Log' = Append(Log,
                    [role |-> "assistant",
                     content |-> <<"Oops! I didn't get that. Could you please type something?">>])
              /\ pc' = pc
              /\ payload' = payload
              /\ \A i \in 1..Len(hist'[p].trace) : hist'[p].trace[i] # "complete"
      ]_vars

\* a Send of a single blank has been answered with the notice
C3_Witness ==
    \E p \in Procs :
        /\ hist[p].op = "empty"
        /\ inp = <<" ">>
        /\ Len(Log) = Len(hist[p].before) + 1
        /\ Last(Log).content = EmptyNotice

\* -------------------------------------------------------------------- C4

\* C4: when the completion call fails, the exception does not leave the
\* callback; the log is the log before the submit plus the user entry and an
\* assistant entry with the apology text, and the session is idle again.
C4_FailureSwallowed ==
    \A p \in Procs :
        /\ hist[p].op # "raised"
        /\ hist[p].op = "apology" =>
             /\ Idle
             /\ Len(Log) = Len(hist[p].before) + 2
             /\ IsPrefix(hist[p].before, Log)
             /\ Log[Len(Log) - 1].role = "user"
             /\ Last(Log) =
                  [role |-> "assistant",
                   content |-> <<"Sorry, something went wrong. Please try again.">>]

\* a submit whose completion call failed has finished
C4_Witness ==
    \E p \in Procs :
        /\ hist[p].op = "apology"
        /\ Idle
        /\ Last(Log).content = Apology
        /\ Log[Len(Log) - 1] = [role |-> "user", content |-> <<"a", "a">>]

\* -------------------------------------------------------------------- C5

\* C5: after a reset from Idle the log is exactly the system entry followed by
\* the greeting, and exactly one row, the greeting, is displayed: the state of
\* a freshly constructed session, whatever the log was before.
C5_ResetRestoresFreshSession ==
    \A p \in Procs :
        hist[p].op = "reset" =>
            /\ Log = <<SystemEntry, GreetingEntry>>
            /\ Len(chat_area) = 1
            /\ RowRole(chat_area[1]) = "assistant"
            /\ RowText(chat_area[1]) = GreetingEntry.content
            /\ Log = Construct.heap[Construct.context]
            /\ chat_area = Construct.chat_area
            /\ panels = Construct.panels

\* a reset of a log of six entries
C5_Witness ==
    \E p \in Procs :
        /\ hist[p].op = "reset"
        /\ Len(hist[p].before) = 6
        /\ Len(Log) = 2
        /\ Len(chat_area) = 1

\* -------------------------------------------------------------------- C6

\* C6: a reset that directly follows a reset changes neither the log nor the
\* displayed rows nor the internal row list.
C6_ResetIdempotent ==
    [][\A p \in Procs :
         (ResetStep(p) /\ LastOp = "reset") =>
              /\ Log' = Log
              /\ chat_area' = chat_area
              /\ panels' = panels
      ]_vars

\* the second of two resets in a row has run
C6_Witness ==
    \E p \in Procs :
        /\ hist[p].op = "reset"
        /\ hist[p].prev = "reset"
        /\ Log = hist[p].before

\* -------------------------------------------------------------------- C7

\* C7: every step of a submit leaves the log it found as a prefix of the log
\* it leaves; only a reset leaves the log shorter, or without its old entries.
C7_AppendOnly ==
    [][/\ \A p \in Procs : (SendStep(p) \/ ResumeStep(p)) => IsPrefix(Log, Log')
       /\ ~IsPrefix(Log, Log') => \E p \in Procs : ResetStep(p)
      ]_vars

\* a second submit has finished on top of the entries of the first
C7_Witness ==
    \E p \in Procs :
        /\ hist[p].op \in {"reply", "apology"}
        /\ Len(hist[p].before) = 4
        /\ hist[p].before[3].role = "user"
        /\ IsPrefix(hist[p].before, Log)
        /\ Len(Log) = 6

\* -------------------------------------------------------------------- C8

\* C8: the displayed rows are the log entries after the system prompt, one
\* for one and in order: as many rows as entries but one, row i with the role
\* and text of entry i+1, and no row for the system prompt.
C8_RowsMirrorLog ==
    /\ Len(chat_area) = Len(Log) - 1
    /\ \A i \in 1..Len(chat_area) :
         /\ RowRole(chat_area[i]) = Log[i + 1].role
         /\ RowText(chat_area[i]) = Log[i + 1].content
         /\ RowRole(chat_area[i]) # "system"

\* greeting, user "a", assistant "r": three rows
C8_Witness ==
    /\ Len(Log) = 4
    /\ Len(chat_area) = 3
    /\ RowRole(chat_area[2]) = "user"
    /\ RowText(chat_area[2]) = <<"a">>
    /\ RowRole(chat_area[3]) = "assistant"
    /\ RowText(chat_area[3]) = <<"r">>

\* -------------------------------------------------------------------- C9

\* C9 as stated: no user or assistant entry of the log has empty text,
\* whatever the completion endpoint returns.
C9_NoEmptyTurn ==
    \A i \in 1..Len(Log) :
        Log[i].role \in {"user", "assistant"} => Log[i].content # <<>>

\* C9 as amended: no user entry has empty text, and an assistant entry with
\* empty text enters the log only as the reply the completion endpoint
\* returned (the greeting, the notice and the apology are never empty).
C9_EmptyOnlyFromReply ==
    /\ [](\A i \in 1..Len(Log) : Log[i].role = "user" => Log[i].content # <<>>)
    /\ [](Log[2].content # <<>>)
    /\ [][\A i \in (Len(Log) + 1)..Len(Log') :
            (IsPrefix(Log, Log') /\ Log'[i].content = <<>>) =>
                \E p \in Procs :
                    /\ ResumeStep(p)
                    /\ hist'[p].op = "reply"
                    /\ Log'[i].role = "assistant"
         ]_vars

\* an empty reply sits in the log after a non-empty user turn
C9_Witness ==
    /\ Len(Log) >= 4
    /\ Last(Log) = [role |-> "assistant", content |-> <<>>]
    /\ Log[Len(Log) - 1].role = "user"
    /\ Log[Len(Log) - 1].content # <<>>

\* ------------------------------------------------------------------- C10

\* C10: at most one completion call is in flight at any time: while a submit
\* is blocked in its call, no second submit gets as far as its own call.
C10_OneCallInFlight == InFlight <= 1

\* ------------------------------------------------------------------- C11

\* C11: a reset takes effect only from Idle: while a completion call is in
\* flight the log is still the list the call was made with and still holds
\* the user turn (and all before it) that the call was made for.
C11_NoResetWhileProcessing ==
    \A p \in Procs :
        pc[p] = "call" =>
            /\ payload[p] = context
            /\ IsPrefix(hist[p].sent, Log)

\* ------------------------------------------------------------------- C12

\* C12: at rest every user entry of the log is directly followed by an
\* assistant entry, so the log neither ends in a user entry nor holds two
\* user entries in a row; during the completion call the user turn is
\* already the last entry of the log.
C12_UserTurnsAnswered ==
    /\ Idle =>
         \A i \in 1..Len(Log) :
             Log[i].role = "user" =>
                 /\ i < Len(Log)
                 /\ Log[i + 1].role = "assistant"
    /\ \A p \in Procs :
         pc[p] = "call" =>
             /\ Last(Log).role = "user"
             /\ \A i \in 1..(Len(Log) - 1) :
                  Log[i].role = "user" => Log[i + 1].role = "assistant"

\* two submits at rest, the second answered with the apology
C12_Witness ==
    /\ Idle
    /\ Len(Log) = 6
    /\ Log[3].role = "user"
    /\ Log[4].role = "assistant"
    /\ Log[5].role = "user"
    /\ Log[6] = [role |-> "assistant", content |-> Apology]

\* ------------------------------------------------------------------- C13

\* C13: a Send with text appends the user entry, renders, and only then calls
\* the completion endpoint; the call is made with the whole current log: the
\* system prompt first, every earlier entry in order, and the new user entry
\* with the trimmed text last.
C13_CallAfterAppendWithWholeLog ==
    [][\A p \in Procs :
         (SendStep(p) /\ ~AllBlank(inp)) =>
              /\ hist'[p].trace = <<"append", "render", "complete">>
              /\ payload'[p] = context'
              /\ hist'[p].sent = Log'
              /\ Len(hist'[p].sent) = Len(Log) + 1
              /\ IsPrefix(Log, hist'[p].sent)
              /\ hist'[p].sent[1] = SystemEntry
              /\ Last(hist'[p].sent).role = "user"
              /\ IsTrimOf(Last(hist'[p].sent).content, inp)
              /\ Len(chat_area') = Len(hist'[p].sent) - 1
      ]_vars

\* the call of a second submit is in flight with five messages
C13_Witness ==
    \E p \in Procs :
        /\ pc[p] = "call"
        /\ Len(hist[p].sent) = 5
        /\ hist[p].sent = Log
        /\ hist[p].sent[3].role = "user"
        /\ Last(hist[p].sent) = [role |-> "user", content |-> <<"a", "a">>]

\* ------------------------------------------------------------------- C14

\* the completion call is part of the callback's events
Consulted(trace) == \E i \in 1..Len(trace) : trace[i] = "complete"

\* C14 as stated: apart from the greeting (construction and reset), an
\* assistant entry is appended only by a submit that called the completion
\* endpoint.
C14_OnlyGreetingBypassesClient ==
    [][/\ IsPrefix(Log, Log') =>
            \A i \in (Len(Log) + 1)..Len(Log') :
                Log'[i].role = "assistant" =>
                    \E p \in Procs : ResumeStep(p) /\ Consulted(hist'[p].trace)
       /\ ~IsPrefix(Log, Log') =>
            /\ \E p \in Procs : ResetStep(p)
            /\ Log' = <<SystemEntry, GreetingEntry>>
      ]_vars

\* C14 as amended: apart from the greeting, an assistant entry is appended
\* either by a submit that called the completion endpoint or, as the canned
\* notice, by a submit whose input trims to empty.
C14_GreetingAndNoticeBypassClient ==
    [][/\ IsPrefix(Log, Log') =>
            \A i \in (Len(Log) + 1)..Len(Log') :
                Log'[i].role = "assistant" =>
                    \/ \E p \in Procs :
                         ResumeStep(p) /\ Consulted(hist'[p].trace)
                    \/ \E p \in Procs :
                         /\ SendStep(p)
                         /\ AllBlank(inp)
                         /\ ~Consulted(hist'[p].trace)
                         /\ Log'[i].content =
                              <<"Oops! I didn't get that. Could you please type something?">>
       /\ ~IsPrefix(Log, Log') =>
            /\ \E p \in Procs : ResetStep(p)
            /\ Log' = <<SystemEntry, GreetingEntry>>
      ]_vars

\* the notice has been appended after an answered submit
C14_Witness ==
    \E p \in Procs :
        /\ hist[p].op = "empty"
        /\ hist[p].prev = "reply"
        /\ Last(Log).content = EmptyNotice
        /\ ~Consulted(hist[p].trace)

\* ------------------------------------------------------------------- C15

\* C15: if the completion endpoint ends every call, every submit that is in
\* its call becomes idle again; a callback leaves the call only with one
\* assistant entry appended, and nothing else happens to the log meanwhile.
C15_ProcessingEnds ==
    /\ \A p \in Procs : (pc[p] = "call") ~> (pc[p] = "idle")
    /\ [][\A p \in Procs :
            pc[p] = "call" =>
                \/ pc'[p] = "call" /\ Log' = Log
                \/ /\ pc'[p] = "idle"
                   /\ Len(Log') = Len(Log) + 1
                   /\ IsPrefix(Log, Log')
                   /\ Last(Log').role = "assistant"
         ]_vars

\* a submit has left its call: one entry more than the call was made with
C15_Witness ==
    \E p \in Procs :
        /\ hist[p].op \in {"reply", "apology"}
        /\ pc[p] = "idle"
        /\ Len(Log) = Len(hist[p].sent) + 1
        /\ IsPrefix(hist[p].sent, Log)

\* ------------------------------------------------------------------- C16

\* C16: the list a completion call holds is a snapshot: while the call is in
\* flight it holds exactly the messages it held when the call was made.
C16_PayloadIsSnapshot ==
    \A p \in Procs :
        pc[p] = "call" => heap[payload[p]] = hist[p].sent

\* ------------------------------------------------------------------- C17

\* C17 (slot p runs the callbacks of browser session p): the log and the rows
\* are shared by the sessions.  When one session has finished a submit and
\* another session acts next, a submit of the other session sends the first
\* session's user turn in its payload and shows it in the transcript, and a
\* reset of the other session leaves no user turn in the log and one row.
C17_SessionsShareLog ==
    [][\A p, q \in Procs :
         (/\ q # p
          /\ LastBy = q
          /\ hist[q].op \in {"reply", "apology"}) =>
            LET k == Len(hist[q].before) + 1
            IN  /\ (SendStep(p) /\ ~AllBlank(inp)) =>
                     /\ Len(hist'[p].sent) > k
                     /\ hist'[p].sent[k] = hist[q].sent[k]
                     /\ hist'[p].sent[k].role = "user"
                     /\ RowRole(chat_area'[k - 1]) = "user"
                     /\ RowText(chat_area'[k - 1]) = hist[q].sent[k].content
                /\ ResetStep(p) =>
                     /\ \A i \in 1..Len(Log') : Log'[i].role # "user"
                     /\ Len(chat_area') = 1
      ]_vars

\* a submit of one session is in its call right after an answered submit of
\* the other session, whose turn is in the payload
C17_Witness ==
    \E p \in Procs :
        /\ pc[p] = "call"
        /\ hist[p].prev = "reply"
        /\ hist[p].prevby \in Procs \ {p}
        /\ Len(hist[p].sent) >= 5
        /\ hist[p].sent[Len(hist[p].sent) - 2].role = "user"

\* ------------------------------------------------------------------- C18

\* C18: in every state the log has at least two entries, the second is the
\* fixed greeting with role assistant, the first has role system, and every
\* entry after the first has role user or assistant.
C18_GreetingSecondSystemOnlyFirst ==
    /\ Len(Log) >= 2
    /\ Log[1].role = "system"
    /\ Log[2] = GreetingEntry
    /\ \A i \in 2..Len(Log) : Log[i].role \in {"user", "assistant"}

\* a submit answered with the apology right after a reset
C18_Witness ==
    \E p \in Procs :
        /\ hist[p].op = "apology"
        /\ hist[p].prev = "reset"
        /\ Len(Log) = 4
        /\ Log[2] = GreetingEntry

====
